---- MODULE Spec2Model ----
\* Model of the lumina-talk chat client: the Dashboard's peer selection, the
\* ChatWindow component (conversation resolution, history read, change feed,
\* sending) and the Supabase tables it talks to.
EXTENDS Bags, FiniteSets, Integers, Naturals, Sequences, TLC

\* ---------------------------------------------------------------- constants
\* Profiles that can be picked in the user list.
Users == {"A", "B", "C"}
\* Signed-in browser sessions; the session named u has user.id = u.
Sessions == {"A", "B"}
\* Dashboard's selectedUserId when no peer is selected (useState<string>("")).
NoUser == ""
\* conversationId === null (useState<string | null>(null)); row ids start at 1.
Null == 0

\* Characters a draft is made of: a blank and a letter.
Chars == {" ", "a"}
\* Email addresses a visitor may sign up with.
Emails == {"a@mail", "b@mail"}
\* The password the availability check of signUp registers with.
TempPassword == "temp-password-for-check"
\* The password a visitor types.
Password == "password"
\* No account is registered for an email.
NoAccount == "none"

\* Bound: conversation rows the store may come to hold.
MaxConvs == 3
\* Bound: message rows the store may come to hold.
MaxMsgs == 2
\* Bound: values of created_at the store hands out.
MaxStamp == 2
\* Bound: calls (initializeConversation, fetchMessages) one session has in flight.
MaxOps == 2
\* Bound: the clock stops here.
MaxClock == 2
\* Bound: pending timer callbacks of the auth state listener, per browser.
MaxTimers == 2
\* Bound: length of a typed draft.
MaxDraftLen == 2
\* Bound: drafts one session composes.
MaxTyped == 2
\* Change events of profiles a channel has not handled yet.
MaxEvents == 2

VARIABLES
  tblConversations,  \* store table "conversations": Seq of rows, id = index
  tblMessages,       \* store table "messages": Seq of rows, id = index
  selectedUserId,    \* Dashboard state, per session
  conversationId,    \* ChatWindow state, per session
  messages,          \* ChatWindow state: displayed sequence (ids of Message rows)
  newMessage,        \* ChatWindow state: the draft, a sequence of Chars
  socketRef,         \* ChatWindow socketRef.current: "null", "open" or "down"
  channel,           \* the supabase channel of the feed effect, per session
  inits,             \* per session: bag of initializeConversation calls in flight
  fetches,           \* per session: bag of fetchMessages calls in flight
  sends,             \* per session: bag of sendMessage calls awaiting the insert
  emitted,           \* per session: number of "chat-message" emits on the socket
  returned,          \* history: per session and peer, the id the last finished
                     \* initializeConversation call ended with (-1: none finished)
  lastSeq,           \* history: the last finished call that ran in succession
                     \* to a completed call of the same pair
  typed,             \* history: per session, number of drafts composed
  readDone,          \* history: per session, the number of stored messages when
                     \* the history read of the open conversation was applied
                     \* (-1: not applied yet)
  conns,             \* per session: the sockets io() made and not yet
                     \* disconnected, and the feed channels subscribed and
                     \* not yet removed
  lastSend           \* history: per session, what the last sendMessage call
                     \* found (tick flips at each call): blank, a draft of
                     \* blanks only with the conversation resolved; padded, an
                     \* accepted draft with blanks around it; sent, the state
                     \* of the socket when the call was accepted ("no": it
                     \* was rejected)
VARIABLES
  tblProfiles,       \* store table "profiles": per user_id, the row
  session,           \* the auth client's session, per browser: signed in or not
  user,              \* AuthProvider state user, per browser (NoUser: null)
  timers,            \* per browser: pending setTimeout(..., 0) callbacks of the
                     \* auth state listener
  statusCalls,       \* per browser: bag of profiles updates in flight
  now,               \* the clock
  goneAt,            \* history: when the browser disappeared (-1: it is there)
  startedAt          \* history: when the listener last received a signed-in
                     \* session (-1: never, or signed out since)
VARIABLES
  profiles,          \* UserList state profiles, per browser: the rows displayed
  listCalls,         \* per browser: bag of fetchProfiles calls in flight
  listFeed           \* the 'profiles-changes' channel of UserList, per browser:
                     \* joined or not, and the events not yet handled
VARIABLES
  accounts,          \* the auth service: per email, the password of the
                     \* registered account (NoAccount: not registered)
  signUps,           \* per browser: the signUp call under way, if any
  signedUp           \* history: per browser, how the last signUp call ended

store == <<tblConversations, tblMessages, tblProfiles>>
reg == <<accounts, signUps, signedUp>>
list == <<profiles, listCalls, listFeed>>
auth == <<session, user, timers, statusCalls, now, goneAt, startedAt>>
view == <<conversationId, messages, newMessage, socketRef, channel>>
calls == <<inits, fetches, sends>>
history == <<returned, lastSeq, typed, readDone, lastSend>>
vars == <<tblConversations, tblMessages, selectedUserId, conversationId, messages,
          newMessage, socketRef, channel, conns, inits, fetches, sends, emitted,
          returned, lastSeq, typed, readDone, lastSend, tblProfiles, session,
          user, timers, statusCalls, now, goneAt, startedAt, profiles,
          listCalls, listFeed, accounts, signUps, signedUp>>

\* ------------------------------------------------------------------ helpers
Pair(a, b) == {a, b}

NoChannel == [conv |-> Null, joined |-> FALSE, queue |-> <<>>]

NoConns == [sockets |-> 0, channels |-> 0]

NoFeed == [joined |-> FALSE, queue |-> 0]

Add(bag, op) == bag (+) SetToBag({op})
Remove(bag, op) == bag (-) SetToBag({op})

\* String.prototype.trim on a draft.
RECURSIVE TrimLeft(_)
TrimLeft(d) ==
  IF d = <<>> THEN d
  ELSE IF Head(d) = " " THEN TrimLeft(Tail(d)) ELSE d

RECURSIVE TrimRight(_)
TrimRight(d) ==
  IF d = <<>> THEN d
  ELSE IF d[Len(d)] = " " THEN TrimRight(SubSeq(d, 1, Len(d) - 1)) ELSE d

Trim(d) == TrimRight(TrimLeft(d))

\* Every draft the input can hold within the bound.
Drafts == UNION {[1..n -> Chars] : n \in 0..MaxDraftLen}

\* The .or(and(...),and(...)) filter of the lookup: ids of the rows whose two
\* participants are u and p, in either column order.
Matching(u, p) ==
  {i \in 1..Len(tblConversations) :
     \/ /\ tblConversations[i].participant_one = u
        /\ tblConversations[i].participant_two = p
     \/ /\ tblConversations[i].participant_one = p
        /\ tblConversations[i].participant_two = u}

\* .single(): the row when exactly one matches, otherwise data is null.
Single(S) == IF Cardinality(S) = 1 THEN CHOOSE i \in S : TRUE ELSE Null

\* The row initializeConversation inserts.
NewConversation(u, p) == [participant_one |-> u, participant_two |-> p]

\* The table's constraints are not part of the client source. A row whose
\* ordered pair of columns is already stored may be refused (a unique
\* constraint on the two columns) or stored (no constraint); any other row
\* is stored.
ConvInsertOutcomes(row) ==
  IF \E i \in 1..Len(tblConversations) : tblConversations[i] = row
  THEN BOOLEAN ELSE {TRUE}

\* Ids of the stored messages of conversation c.
MessagesOf(c) == {i \in 1..Len(tblMessages) : tblMessages[i].conversation_id = c}

\* .eq("conversation_id", c).order("created_at", {ascending: true}): the rows
\* of c by ascending created_at; rows of equal created_at come in any order.
OrderedReads(c) ==
  LET S == MessagesOf(c)
      n == Cardinality(S)
  IN {f \in [1..n -> S] :
        /\ \A i, j \in 1..n : i # j => f[i] # f[j]
        /\ \A i, j \in 1..n : i < j =>
             tblMessages[f[i]].created_at <= tblMessages[f[j]].created_at}

RECURSIVE SumOver(_, _)
SumOver(f, S) ==
  IF S = {} THEN 0
  ELSE LET t == CHOOSE t \in S : TRUE
       IN BagCardinality(f[t]) + SumOver(f, S \ {t})

\* Calls of initializeConversation in flight for the pair pr, in any session.
InitsFor(pr) ==
  {<<s, op>> \in Sessions \X UNION {BagToSet(inits[t]) : t \in Sessions} :
     op \in BagToSet(inits[s]) /\ Pair(s, op.peer) = pr}

\* --------------------------------------------------------------------- Init
\* The profiles row of user u (columns of the Profile interface), not
\* written to by any client yet.
Profile(u, online) == [username |-> u, is_online |-> online, last_seen |-> 0]

\* Both browsers are signed in, as themselves, and the page has loaded: the
\* state in which Dashboard and ChatWindow run.
SignedIn ==
  /\ tblProfiles = [u \in Sessions |-> Profile(u, FALSE)]
  /\ session = [s \in Sessions |-> TRUE]
  /\ user = [s \in Sessions |-> s]
  /\ timers = [s \in Sessions |-> 0]
  /\ statusCalls = [s \in Sessions |-> EmptyBag]
  /\ now = 0
  /\ goneAt = [s \in Sessions |-> -1]
  /\ startedAt = [s \in Sessions |-> -1]

\* No signUp call under way, none made yet.
NoSignUp == [pc |-> "idle", email |-> "", username |-> "", fresh |-> FALSE]

NotSignedUp == [result |-> "none", email |-> "", fresh |-> FALSE]

\* The auth service when both browsers' users have signed up and confirmed:
\* each email is registered with the password its user chose.
Registered ==
  /\ accounts = [e \in Emails |-> Password]
  /\ signUps = [s \in Sessions |-> NoSignUp]
  /\ signedUp = [s \in Sessions |-> NotSignedUp]

\* UserList before its effect has run: nothing displayed, no channel.
InitUserList ==
  /\ profiles = [s \in Sessions |-> <<>>]
  /\ listCalls = [s \in Sessions |-> EmptyBag]
  /\ listFeed = [s \in Sessions |-> NoFeed]

\* Dashboard right after load: nothing selected, ChatWindow not mounted.
InitWindow ==
  /\ selectedUserId = [s \in Sessions |-> NoUser]
  /\ conversationId = [s \in Sessions |-> Null]
  /\ messages = [s \in Sessions |-> <<>>]
  /\ newMessage = [s \in Sessions |-> <<>>]
  /\ socketRef = [s \in Sessions |-> "null"]
  /\ channel = [s \in Sessions |-> NoChannel]
  /\ conns = [s \in Sessions |-> NoConns]
  /\ inits = [s \in Sessions |-> EmptyBag]
  /\ fetches = [s \in Sessions |-> EmptyBag]
  /\ sends = [s \in Sessions |-> EmptyBag]
  /\ emitted = [s \in Sessions |-> 0]
  /\ returned = [s \in Sessions |-> [p \in Users |-> -1]]
  /\ lastSeq = [expect |-> Null, id |-> Null, inserted |-> FALSE]
  /\ typed = [s \in Sessions |-> 0]
  /\ readDone = [s \in Sessions |-> -1]
  /\ lastSend = [s \in Sessions |->
                   [tick |-> FALSE, blank |-> FALSE, padded |-> FALSE,
                    sent |-> "no"]]

\* The page right after load: Dashboard and UserList.
InitChat == InitWindow /\ InitUserList /\ Registered

\* The page right after load, signed in.
InitView == InitChat /\ SignedIn

\* An empty store: no participant has opened a chat yet.
Init ==
  /\ tblConversations = <<>>
  /\ tblMessages = <<>>
  /\ InitView

\* ------------------------------------------------- ChatWindow: state effects
\* A fetchMessages call of an earlier run of the feed effect.
Superseded(op) == [op EXCEPT !.cur = FALSE]

\* setConversationId(id) and the re-run of the feed effect it causes when the
\* id changes: the old channel is removed, fetchMessages() is called and a new
\* channel is created (its subscription is not yet joined).
SetConversationId(s, id) ==
  /\ conversationId' = [conversationId EXCEPT ![s] = id]
  /\ IF id # conversationId[s]
     THEN /\ channel' = [channel EXCEPT ![s] =
                           [conv |-> id, joined |-> FALSE, queue |-> <<>>]]
          /\ fetches' = [fetches EXCEPT ![s] =
                           Add(BagOfAll(Superseded, @),
                               [conv |-> id, pc |-> "sent", data |-> <<>>,
                                cur |-> TRUE])]
          /\ readDone' = [readDone EXCEPT ![s] = -1]
          /\ conns' = [conns EXCEPT ![s].channels =
                         (IF channel[s].conv # Null THEN @ - 1 ELSE @) + 1]
     ELSE UNCHANGED <<channel, fetches, readDone, conns>>

\* The id a call in succession to a completed call of the pair is to return:
\* the id the caller's own last call returned, else the one the peer's did.
Expected(s, p) ==
  IF InitsFor(Pair(s, p)) # {} THEN Null
  ELSE IF returned[s][p] >= 1 THEN returned[s][p]
  ELSE IF p \in Sessions /\ returned[p][s] >= 1 THEN returned[p][s]
  ELSE Null

Overlapped(op) == [op EXCEPT !.expect = Null]
Orphaned(op) == [op EXCEPT !.live = FALSE]

\* --------------------------------------------------- Dashboard: peer selection
\* A selection effect whose cleanup leaves the socket connected.
SelectUserNoDisconnect(s, p) ==
  /\ p \in Users \ {s}
  /\ p # selectedUserId[s]
  /\ Len(tblConversations) + SumOver(inits, Sessions) < MaxConvs
  /\ BagCardinality(inits[s]) + BagCardinality(fetches[s]) < MaxOps
  /\ selectedUserId' = [selectedUserId EXCEPT ![s] = p]
  /\ socketRef' = [socketRef EXCEPT ![s] = "open"]
  /\ conns' = [conns EXCEPT ![s].sockets = @ + 1]
  /\ inits' =
       [t \in Sessions |->
          LET others == BagOfAll(LAMBDA op :
                                   IF Pair(t, op.peer) = Pair(s, p)
                                   THEN Overlapped(op) ELSE op,
                                 inits[t])
          IN IF t = s
             THEN Add(others, [peer |-> p, pc |-> "lookup", live |-> TRUE,
                               expect |-> Expected(s, p)])
             ELSE others]
  /\ UNCHANGED <<store, auth, reg, list, conversationId, messages, newMessage, channel, fetches,
                 sends, emitted, history>>

\* handleSelectUser(p): selectedUserId changes, so ChatWindow (mounted now, or
\* kept mounted) runs the cleanup of its selection effect and the effect
\* again: the socket is replaced and initializeConversation() is called.
SelectUser(s, p) ==
  /\ p \in Users \ {s}
  /\ p # selectedUserId[s]
  /\ Len(tblConversations) + SumOver(inits, Sessions) < MaxConvs
  /\ BagCardinality(inits[s]) + BagCardinality(fetches[s]) < MaxOps
  /\ selectedUserId' = [selectedUserId EXCEPT ![s] = p]
  /\ socketRef' = [socketRef EXCEPT ![s] = "open"]
  /\ conns' = [conns EXCEPT ![s].sockets =
                 (IF socketRef[s] # "null" THEN @ - 1 ELSE @) + 1]
  /\ inits' =
       [t \in Sessions |->
          LET others == BagOfAll(LAMBDA op :
                                   IF Pair(t, op.peer) = Pair(s, p)
                                   THEN Overlapped(op) ELSE op,
                                 inits[t])
          IN IF t = s
             THEN Add(others, [peer |-> p, pc |-> "lookup", live |-> TRUE,
                               expect |-> Expected(s, p)])
             ELSE others]
  /\ UNCHANGED <<store, auth, reg, list, conversationId, messages, newMessage, channel, fetches,
                 sends, emitted, history>>

\* handleBackToUsers: selectedUserId becomes "", ChatWindow unmounts. Both
\* effect cleanups run and the component state is gone; calls in flight go on,
\* their setState calls no longer have any effect.
BackToUsers(s) ==
  /\ selectedUserId[s] # NoUser
  /\ selectedUserId' = [selectedUserId EXCEPT ![s] = NoUser]
  /\ conversationId' = [conversationId EXCEPT ![s] = Null]
  /\ messages' = [messages EXCEPT ![s] = <<>>]
  /\ newMessage' = [newMessage EXCEPT ![s] = <<>>]
  /\ socketRef' = [socketRef EXCEPT ![s] = "null"]
  /\ channel' = [channel EXCEPT ![s] = NoChannel]
  /\ conns' = [conns EXCEPT
                 ![s].sockets = IF socketRef[s] # "null" THEN @ - 1 ELSE @,
                 ![s].channels = IF channel[s].conv # Null THEN @ - 1 ELSE @]
  /\ inits' = [inits EXCEPT ![s] = BagOfAll(Orphaned, @)]
  /\ fetches' = [fetches EXCEPT ![s] = EmptyBag]
  /\ sends' = [sends EXCEPT ![s] = BagOfAll(Orphaned, @)]
  /\ readDone' = [readDone EXCEPT ![s] = -1]
  /\ UNCHANGED <<store, auth, reg, list, emitted, returned, lastSeq, typed, lastSend>>

\* The connection of the socket io("http://localhost:8080") made is lost, or
\* was never established (the broadcast server is unreachable): the socket
\* object stays in socketRef, disconnected.
SocketDown(s) ==
  /\ socketRef[s] = "open"
  /\ socketRef' = [socketRef EXCEPT ![s] = "down"]
  /\ UNCHANGED <<store, auth, reg, list, conns,
                 selectedUserId, conversationId, messages, newMessage,
                 channel, calls, emitted, history>>

\* The socket (re)connects.
SocketUp(s) ==
  /\ socketRef[s] = "down"
  /\ socketRef' = [socketRef EXCEPT ![s] = "open"]
  /\ UNCHANGED <<store, auth, reg, list, conns,
                 selectedUserId, conversationId, messages, newMessage,
                 channel, calls, emitted, history>>

\* ------------------------------------------------- initializeConversation
\* The end of a call: existingConversation is id (Null: no row was obtained).
Finish(s, op, id, inserted) ==
  /\ inits' = [inits EXCEPT ![s] = Remove(@, op)]
  /\ returned' = [returned EXCEPT ![s][op.peer] = id]
  /\ lastSeq' = IF op.expect # Null
                THEN [expect |-> op.expect, id |-> id, inserted |-> inserted]
                ELSE lastSeq
  /\ IF op.live /\ id # Null
     THEN SetConversationId(s, id)
     ELSE UNCHANGED <<conversationId, channel, fetches, readDone, conns>>

\* The select ... .or(...).single() is answered (ok), or fails (data null).
InitLookup(s, op, ok) ==
  /\ op \in BagToSet(inits[s])
  /\ op.pc = "lookup"
  /\ LET found == IF ok THEN Single(Matching(s, op.peer)) ELSE Null
     IN IF found # Null
        THEN Finish(s, op, found, FALSE)
        ELSE /\ inits' = [inits EXCEPT ![s] =
                            Add(Remove(@, op), [op EXCEPT !.pc = "insert"])]
             /\ UNCHANGED <<conversationId, channel, fetches, returned, lastSeq,
                            readDone, conns>>
  /\ UNCHANGED <<store, auth, reg, list, selectedUserId, messages, newMessage, socketRef, sends,
                 emitted, typed, lastSend>>

\* An insert that is stored over the newest row of the table.
InitInsertReplaces(s, op, accepted) ==
  /\ op \in BagToSet(inits[s])
  /\ op.pc = "insert"
  /\ IF accepted
     THEN /\ tblConversations' =
               IF tblConversations = <<>>
               THEN <<NewConversation(s, op.peer)>>
               ELSE [tblConversations EXCEPT ![Len(tblConversations)] =
                       NewConversation(s, op.peer)]
          /\ Finish(s, op, Len(tblConversations'), TRUE)
     ELSE /\ UNCHANGED tblConversations
          /\ Finish(s, op, Null, FALSE)
  /\ UNCHANGED <<tblMessages, tblProfiles, auth, reg, list, selectedUserId, messages,
                 newMessage, socketRef,
                 sends, emitted, typed, lastSend>>

\* A resolver that makes up an id when the insert gives none.
InitInsertLocalId(s, op, accepted) ==
  /\ op \in BagToSet(inits[s])
  /\ op.pc = "insert"
  /\ IF accepted
     THEN tblConversations' =
            Append(tblConversations, NewConversation(s, op.peer))
     ELSE UNCHANGED tblConversations
  /\ Finish(s, op, Len(tblConversations) + 1, accepted)
  /\ UNCHANGED <<tblMessages, tblProfiles, auth, reg, list, selectedUserId, messages,
                 newMessage, socketRef, sends, emitted, typed, lastSend>>

\* The insert(...).select("id").single() is answered: the row is stored and
\* its id returned (accepted), or the insert is refused or fails (data null).
InitInsert(s, op, accepted) ==
  /\ op \in BagToSet(inits[s])
  /\ op.pc = "insert"
  /\ IF accepted
     THEN /\ tblConversations' =
               Append(tblConversations, NewConversation(s, op.peer))
          /\ Finish(s, op, Len(tblConversations) + 1, TRUE)
     ELSE /\ UNCHANGED tblConversations
          /\ Finish(s, op, Null, FALSE)
  /\ UNCHANGED <<tblMessages, tblProfiles, auth, reg, list, selectedUserId, messages,
                 newMessage, socketRef,
                 sends, emitted, typed, lastSend>>

\* ------------------------------------------------------- feed subscription
\* The realtime server registers the subscription of .subscribe(): from now on
\* the inserts of the conversation are sent to this channel.
ChannelJoined(s) ==
  /\ channel[s].conv # Null
  /\ ~channel[s].joined
  /\ channel' = [channel EXCEPT ![s].joined = TRUE]
  /\ UNCHANGED <<store, auth, reg, list, conns,
                 selectedUserId, conversationId, messages, newMessage,
                 socketRef, calls, emitted, history>>

\* The realtime connection is lost: the server drops the subscription, and
\* inserts made from now on are not sent to this channel. The client joins
\* again by itself (ChannelJoined); the feed effect passes no status callback
\* to .subscribe() and is not re-run.
ChannelInterrupted(s) ==
  /\ channel[s].conv # Null
  /\ channel[s].joined
  /\ channel' = [channel EXCEPT ![s].joined = FALSE]
  /\ UNCHANGED <<store, auth, reg, list, conns,
                 selectedUserId, conversationId, messages, newMessage,
                 socketRef, calls, emitted, history>>

\* The postgres_changes INSERT handler runs for the next event of the channel:
\* setMessages(prev => [...prev, payload.new]).
FeedHandler(prev, m) == Append(prev, m)

FeedDeliver(s) ==
  /\ channel[s].queue # <<>>
  /\ messages' = [messages EXCEPT ![s] = FeedHandler(@, Head(channel[s].queue))]
  /\ channel' = [channel EXCEPT ![s].queue = Tail(@)]
  /\ UNCHANGED <<store, auth, reg, list, conns, selectedUserId, conversationId, newMessage,
                 socketRef,
                 calls, emitted, history>>

\* The realtime server sends the INSERT of message id m of conversation c to
\* every channel subscribed to c, in the order of the inserts.
Fanout(c, m) ==
  [s \in Sessions |->
     IF channel[s].conv = c /\ channel[s].joined
     THEN [channel[s] EXCEPT !.queue = Append(@, m)]
     ELSE channel[s]]

\* ------------------------------------------------------------ fetchMessages
\* The store runs the select of a fetchMessages call (ok), or the request
\* fails (data null, nothing is set).
FetchExec(s, op, ok) ==
  /\ op \in BagToSet(fetches[s])
  /\ op.pc = "sent"
  /\ IF ok
     THEN \E data \in OrderedReads(op.conv) :
            fetches' = [fetches EXCEPT ![s] =
                          Add(Remove(@, op),
                              [op EXCEPT !.pc = "replied", !.data = data])]
     ELSE fetches' = [fetches EXCEPT ![s] = Remove(@, op)]
  /\ UNCHANGED <<store, auth, reg, list, conns, selectedUserId, view, inits, sends, emitted,
                 history>>

\* The response arrives: setMessages(data).
FetchApply(s, op) ==
  /\ op \in BagToSet(fetches[s])
  /\ op.pc = "replied"
  /\ messages' = [messages EXCEPT ![s] = op.data]
  /\ fetches' = [fetches EXCEPT ![s] = Remove(@, op)]
  /\ readDone' = [readDone EXCEPT ![s] =
                     IF op.cur THEN Len(tblMessages) ELSE @]
  /\ UNCHANGED <<store, auth, reg, list, conns, selectedUserId, conversationId, newMessage,
                 socketRef,
                 channel, inits, sends, emitted, returned, lastSeq, typed,
                 lastSend>>

\* -------------------------------------------------------------- sendMessage
\* onChange of the input: setNewMessage(e.target.value).
TypeDraft(s, d) ==
  /\ selectedUserId[s] # NoUser
  /\ d \in Drafts
  /\ d # newMessage[s]
  /\ newMessage' = [newMessage EXCEPT ![s] = d]
  /\ UNCHANGED <<store, auth, reg, list, conns,
                 selectedUserId, conversationId, messages, socketRef,
                 channel, calls, emitted, returned, lastSeq, readDone, lastSend>>

\* A guard that tests the raw draft, without trimming it.
SendRejectedNoTrim(s) ==
  newMessage[s] = <<>> \/ conversationId[s] = Null

\* The guard of sendMessage: !newMessage.trim() || !user || !conversationId.
SendRejected(s) == Trim(newMessage[s]) = <<>> \/ conversationId[s] = Null

\* A message object that carries the draft as typed.
NewMessageRaw(s) ==
  [conv |-> conversationId[s], receiver |-> selectedUserId[s],
   content |-> newMessage[s], live |-> TRUE]

\* The message object sendMessage builds.
NewMessage(s) ==
  [conv |-> conversationId[s], receiver |-> selectedUserId[s],
   content |-> Trim(newMessage[s]), live |-> TRUE]

\* A sendMessage that sends only through a connected socket: without one the
\* call ends before the insert.
SendMessageNeedsSocket(s) ==
  /\ selectedUserId[s] # NoUser
  /\ IF SendRejected(s) \/ socketRef[s] # "open"
     THEN UNCHANGED <<sends, emitted>>
     ELSE /\ Len(tblMessages) + SumOver(sends, Sessions) < MaxMsgs
          /\ emitted' = [emitted EXCEPT ![s] = @ + 1]
          /\ sends' = [sends EXCEPT ![s] = Add(@, NewMessage(s))]
  /\ UNCHANGED <<store, auth, reg, list, conns, selectedUserId, view, inits, fetches,
                 returned, lastSeq,
                 readDone>>

\* A sendMessage that clears the draft as soon as the message is built.
SendMessageClearsFirst(s) ==
  /\ selectedUserId[s] # NoUser
  /\ IF SendRejected(s)
     THEN UNCHANGED <<sends, emitted, newMessage>>
     ELSE /\ Len(tblMessages) + SumOver(sends, Sessions) < MaxMsgs
          /\ emitted' = [emitted EXCEPT ![s] =
                           IF socketRef[s] # "null" THEN @ + 1 ELSE @]
          /\ sends' = [sends EXCEPT ![s] = Add(@, NewMessage(s))]
          /\ newMessage' = [newMessage EXCEPT ![s] = <<>>]
  /\ UNCHANGED <<store, auth, reg, list, conns, selectedUserId, conversationId, messages,
                 socketRef, channel, inits, fetches, returned, lastSeq,
                 readDone>>

\* Enter in the input, or a click on the send button: sendMessage() up to its
\* await. The socket emit is synchronous; the insert is in flight afterwards.
SendMessage(s) ==
  /\ selectedUserId[s] # NoUser
  /\ IF SendRejected(s)
     THEN UNCHANGED <<sends, emitted>>
     ELSE /\ Len(tblMessages) + SumOver(sends, Sessions) < MaxMsgs
          /\ emitted' = [emitted EXCEPT ![s] =
                           IF socketRef[s] # "null" THEN @ + 1 ELSE @]
          /\ sends' = [sends EXCEPT ![s] = Add(@, NewMessage(s))]
  /\ UNCHANGED <<store, auth, reg, list, conns, selectedUserId, view, inits, fetches,
                 returned, lastSeq,
                 readDone>>

\* The row the store keeps for a message; created_at is set by the store.
StoredMessage(s, op, stamp) ==
  [conversation_id |-> op.conv, sender_id |-> s, receiver_id |-> op.receiver,
   content |-> op.content, created_at |-> stamp]

\* The insert of a sendMessage call is answered: the row is stored with the
\* created_at the store gives it (ok) or the insert fails; either way the call
\* goes on to setNewMessage("").
SendInsert(s, op, ok, stamp) ==
  /\ op \in BagToSet(sends[s])
  /\ stamp \in 1..MaxStamp
  /\ IF ok
     THEN /\ tblMessages' = Append(tblMessages, StoredMessage(s, op, stamp))
          /\ channel' = Fanout(op.conv, Len(tblMessages) + 1)
     ELSE UNCHANGED <<tblMessages, channel>>
  /\ newMessage' = [newMessage EXCEPT ![s] = IF op.live THEN <<>> ELSE @]
  /\ sends' = [sends EXCEPT ![s] = Remove(@, op)]
  /\ UNCHANGED <<tblConversations, tblProfiles, auth, reg, list, conns, selectedUserId,
                 conversationId, messages,
                 socketRef, inits, fetches, emitted, history>>

\* ------------------------------------------------ AuthProvider: presence
chat == <<tblConversations, tblMessages, selectedUserId, view, conns, calls,
          emitted, history>>

\* A listener that calls the updateOnlineStatus of the current render.
MountUserLive == "A"

\* The user the functions of AuthProvider's first render close over: the
\* effect that registers the auth state listener has no dependencies, so the
\* listener keeps the updateOnlineStatus of that render, where user is the
\* initial useState value.
MountUser == NoUser

\* updateOnlineStatus(isOnline) of a render in which user is u: nothing when u
\* is null, else the update of u's profile is sent with the caller's time.
\* next is what the caller does once the update is answered.
UpdateOnlineStatus(s, u, isOnline, next) ==
  statusCalls' =
    IF u = NoUser THEN statusCalls
    ELSE [statusCalls EXCEPT ![s] =
            Add(@, [user |-> u, is_online |-> isOnline, last_seen |-> now,
                    next |-> next])]

\* The auth state listener runs with the session it is given: setSession,
\* setUser, setLoading, and for a signed-in session the timer is set.
Listener(s, signedIn) ==
  /\ user' = [user EXCEPT ![s] = IF signedIn THEN s ELSE NoUser]
  /\ timers' = [timers EXCEPT ![s] = IF signedIn THEN @ + 1 ELSE @]
  /\ startedAt' = [startedAt EXCEPT ![s] = IF signedIn THEN now ELSE -1]

\* The auth client delivers an event with its current session (the initial
\* session after the listener is registered, a refreshed token).
AuthEvent(s) ==
  /\ goneAt[s] = -1
  /\ timers[s] < MaxTimers
  /\ Listener(s, session[s])
  /\ UNCHANGED <<chat, reg, list, tblProfiles, session, statusCalls, now, goneAt>>

\* A sign-in succeeds: the auth client has a session and delivers SIGNED_IN.
SignIn(s) ==
  /\ goneAt[s] = -1
  /\ ~session[s]
  /\ timers[s] < MaxTimers
  /\ session' = [session EXCEPT ![s] = TRUE]
  /\ Listener(s, TRUE)
  /\ UNCHANGED <<chat, reg, list, tblProfiles, statusCalls, now, goneAt>>

\* getSession() of the mount effect resolves: setSession, setUser, setLoading.
GetSession(s) ==
  /\ goneAt[s] = -1
  /\ user[s] # (IF session[s] THEN s ELSE NoUser)
  /\ user' = [user EXCEPT ![s] = IF session[s] THEN s ELSE NoUser]
  /\ UNCHANGED <<chat, reg, list, tblProfiles, session, timers, statusCalls, now, goneAt,
                 startedAt>>

\* A timer of the listener fires: updateOnlineStatus(true), the function of
\* the first render.
TimerFires(s) ==
  /\ timers[s] > 0
  /\ timers' = [timers EXCEPT ![s] = @ - 1]
  /\ UpdateOnlineStatus(s, MountUser, TRUE, "none")
  /\ UNCHANGED <<chat, reg, list, tblProfiles, session, user, now, goneAt, startedAt>>

\* supabase.auth.signOut() and the SIGNED_OUT event it delivers.
AuthSignOut(s) ==
  /\ session' = [session EXCEPT ![s] = FALSE]
  /\ user' = [user EXCEPT ![s] = NoUser]
  /\ startedAt' = [startedAt EXCEPT ![s] = -1]

\* signOut() of the current render: with a user, updateOnlineStatus(false) is
\* awaited first; then supabase.auth.signOut().
SignOut(s) ==
  /\ goneAt[s] = -1
  /\ session[s]
  /\ BagCardinality(statusCalls[s]) < MaxOps
  /\ IF user[s] # NoUser
     THEN /\ UpdateOnlineStatus(s, user[s], FALSE, "signOut")
          /\ UNCHANGED <<session, user, startedAt>>
     ELSE /\ AuthSignOut(s)
          /\ UNCHANGED statusCalls
  /\ UNCHANGED <<chat, reg, list, tblProfiles, timers, now, goneAt>>

\* The realtime server sends the event of a written profiles row to every
\* joined 'profiles-changes' channel.
ProfilesChanged(written) ==
  [t \in Sessions |->
     IF written /\ listFeed[t].joined
     THEN [listFeed[t] EXCEPT !.queue = @ + 1]
     ELSE listFeed[t]]

\* An update that writes a whole row for the user, whether one is stored or
\* not.
StatusUpdateUpsert(s, call, ok) ==
  /\ call \in BagToSet(statusCalls[s])
  /\ statusCalls' = [statusCalls EXCEPT ![s] = Remove(@, call)]
  /\ tblProfiles' =
       IF ok
       THEN [u \in DOMAIN tblProfiles \cup {call.user} |->
               IF u = call.user
               THEN [username |-> "", is_online |-> call.is_online,
                     last_seen |-> call.last_seen]
               ELSE tblProfiles[u]]
       ELSE tblProfiles
  /\ listFeed' = ProfilesChanged(ok)
  /\ IF call.next = "signOut" /\ goneAt[s] = -1
     THEN AuthSignOut(s)
     ELSE UNCHANGED <<session, user, startedAt>>
  /\ UNCHANGED <<chat, reg, profiles, listCalls, timers, now, goneAt>>

\* A profiles update is answered: the two columns of the rows with the
\* user_id are written (ok), none if there is no such row, or the request
\* fails; the caller, if still there, goes on either way.
StatusUpdate(s, call, ok) ==
  /\ call \in BagToSet(statusCalls[s])
  /\ statusCalls' = [statusCalls EXCEPT ![s] = Remove(@, call)]
  /\ tblProfiles' =
       IF ok /\ call.user \in DOMAIN tblProfiles
       THEN [tblProfiles EXCEPT ![call.user] =
               [@ EXCEPT !.is_online = call.is_online,
                         !.last_seen = call.last_seen]]
       ELSE tblProfiles
  /\ listFeed' = ProfilesChanged(ok /\ call.user \in DOMAIN tblProfiles)
  /\ IF call.next = "signOut" /\ goneAt[s] = -1
     THEN AuthSignOut(s)
     ELSE UNCHANGED <<session, user, startedAt>>
  /\ UNCHANGED <<chat, reg, profiles, listCalls, timers, now, goneAt>>

\* Time passes.
Tick ==
  /\ now < MaxClock
  /\ now' = now + 1
  /\ UNCHANGED <<chat, reg, list, tblProfiles, session, user, timers, statusCalls, goneAt,
                 startedAt>>

\* The browser of a signed-in user disappears (tab killed, network gone,
\* crash): no code of the page runs any more; requests already sent may
\* still be answered.
Disappear(s) ==
  /\ goneAt[s] = -1
  /\ session[s]
  /\ goneAt' = [goneAt EXCEPT ![s] = now]
  /\ timers' = [timers EXCEPT ![s] = 0]
  /\ UNCHANGED <<chat, reg, list, tblProfiles, session, user, statusCalls, now, startedAt>>

\* ------------------------------------------------------ UserList: the list
\* The place of a username in the order of usernames.
NameIndex(n) == CHOOSE i \in 1..3 : <<"A", "B", "C">>[i] = n

\* Row a comes before row b in .order('is_online', {ascending: false})
\* .order('username').
ListedBefore(a, b) ==
  \/ a.is_online /\ ~b.is_online
  \/ a.is_online = b.is_online /\ NameIndex(a.username) < NameIndex(b.username)

\* The answer of the select of fetchProfiles for viewer u: the rows of the
\* other users, in that order.
ProfilesQuery(u) ==
  LET others == DOMAIN tblProfiles \ {u}
      row(k) == [user_id |-> k, username |-> tblProfiles[k].username,
                 is_online |-> tblProfiles[k].is_online,
                 last_seen |-> tblProfiles[k].last_seen]
      order == CHOOSE f \in [1..Cardinality(others) -> others] :
                 /\ \A i, j \in DOMAIN f : i # j => f[i] # f[j]
                 /\ \A i, j \in DOMAIN f :
                      i < j => ListedBefore(tblProfiles[f[i]], tblProfiles[f[j]])
  IN [i \in 1..Cardinality(others) |-> row(order[i])]

\* The handler of the 'profiles-changes' channel runs for the next event:
\* fetchProfiles() is called.
ListEvent(s) ==
  /\ listFeed[s].queue > 0
  /\ BagCardinality(listCalls[s]) < MaxOps
  /\ listFeed' = [listFeed EXCEPT ![s].queue = @ - 1]
  /\ listCalls' = [listCalls EXCEPT ![s] = Add(@, [pc |-> "sent", data |-> <<>>])]
  /\ UNCHANGED <<chat, store, auth, reg, profiles>>

\* The store runs the select of a fetchProfiles call (ok), or the request
\* fails (data null, nothing is set).
ListFetchExec(s, op, ok) ==
  /\ op \in BagToSet(listCalls[s])
  /\ op.pc = "sent"
  /\ listCalls' =
       [listCalls EXCEPT ![s] =
          IF ok
          THEN Add(Remove(@, op), [pc |-> "replied", data |-> ProfilesQuery(s)])
          ELSE Remove(@, op)]
  /\ UNCHANGED <<chat, store, auth, reg, profiles, listFeed>>

\* The response arrives: setProfiles(data).
ListFetchApply(s, op) ==
  /\ op \in BagToSet(listCalls[s])
  /\ op.pc = "replied"
  /\ profiles' = [profiles EXCEPT ![s] = op.data]
  /\ listCalls' = [listCalls EXCEPT ![s] = Remove(@, op)]
  /\ UNCHANGED <<chat, store, auth, reg, listFeed>>

\* ------------------------------------------------------------ specifications
\* Conversation resolution: two sessions select peers, leave and come back;
\* every store request is answered.
NextResolve ==
  \E s \in Sessions :
    \/ \E p \in Users : SelectUser(s, p)
    \/ BackToUsers(s)
    \/ \E op \in BagToSet(inits[s]) : InitLookup(s, op, TRUE)
    \/ \E op \in BagToSet(inits[s]) :
         \E accepted \in ConvInsertOutcomes(NewConversation(s, op.peer)) :
           InitInsert(s, op, accepted)
    \/ ChannelJoined(s)
    \/ \E op \in BagToSet(fetches[s]) : FetchExec(s, op, TRUE)
    \/ \E op \in BagToSet(fetches[s]) : FetchApply(s, op)

SpecResolve == Init /\ [][NextResolve]_vars

\* A conversation between A and B exists from an earlier visit, with no
\* messages; both pages were reloaded since.
InitSync ==
  /\ tblConversations = <<NewConversation("A", "B")>>
  /\ tblMessages = <<>>
  /\ InitView

\* Message synchronisation: A and B open the chat with each other and
\* exchange messages; every store request is answered.
NextSync ==
  \E s \in Sessions :
    \/ \E p \in Sessions : SelectUser(s, p)
    \/ \E op \in BagToSet(inits[s]) : InitLookup(s, op, TRUE)
    \/ ChannelJoined(s)
    \/ \E op \in BagToSet(fetches[s]) : FetchExec(s, op, TRUE)
    \/ \E op \in BagToSet(fetches[s]) : FetchApply(s, op)
    \/ FeedDeliver(s)
    \/ TypeDraft(s, <<"a">>) /\ UNCHANGED typed
    \/ SendMessage(s) /\ UNCHANGED <<typed, lastSend>>
    \/ \E op \in BagToSet(sends[s]) : \E stamp \in 1..MaxStamp :
         SendInsert(s, op, TRUE, stamp)

SpecSync == InitSync /\ [][NextSync]_vars

\* Conversations of B with A and with C exist from earlier visits, with no
\* messages; both pages were reloaded since.
InitSwitch ==
  /\ tblConversations = <<NewConversation("A", "B"), NewConversation("B", "C")>>
  /\ tblMessages = <<>>
  /\ InitView

\* Switching: A keeps the chat with B open and sends; B moves between the
\* chats with A and with C; every store request is answered.
NextSwitch ==
  \/ SelectUser("A", "B")
  \/ \E p \in Users : SelectUser("B", p)
  \/ TypeDraft("A", <<"a">>) /\ UNCHANGED typed
  \/ SendMessage("A") /\ UNCHANGED <<typed, lastSend>>
  \/ \E op \in BagToSet(sends["A"]) : \E stamp \in 1..MaxStamp :
       SendInsert("A", op, TRUE, stamp)
  \/ \E s \in Sessions :
       \/ \E op \in BagToSet(inits[s]) : InitLookup(s, op, TRUE)
       \/ ChannelJoined(s)
       \/ \E op \in BagToSet(fetches[s]) : FetchExec(s, op, TRUE)
       \/ \E op \in BagToSet(fetches[s]) : FetchApply(s, op)
       \/ FeedDeliver(s)

SpecSwitch == InitSwitch /\ [][NextSwitch]_vars

\* The user composes a draft: TypeDraft, with the history of it.
Compose(s, d) ==
  /\ typed[s] < MaxTyped
  /\ TypeDraft(s, d)
  /\ typed' = [typed EXCEPT ![s] = @ + 1]

\* The user submits: SendMessage, with the history of what the call found.
Submit(s) ==
  /\ SendMessage(s)
  /\ lastSend' = [lastSend EXCEPT ![s] =
                    [tick |-> ~@.tick,
                     blank |-> /\ newMessage[s] # <<>>
                               /\ Trim(newMessage[s]) = <<>>
                               /\ conversationId[s] # Null,
                     padded |-> /\ ~SendRejected(s)
                                /\ Trim(newMessage[s]) # newMessage[s],
                     sent |-> IF SendRejected(s) THEN "no" ELSE socketRef[s]]]
  /\ UNCHANGED typed

\* Sending: A opens the chat with B, types drafts and sends them; a store
\* request may fail.
NextSend ==
  \/ SelectUser("A", "B")
  \/ \E op \in BagToSet(inits["A"]) : \E ok \in BOOLEAN : InitLookup("A", op, ok)
  \/ \E op \in BagToSet(inits["A"]) : \E accepted \in BOOLEAN :
       InitInsert("A", op, accepted)
  \/ ChannelJoined("A")
  \/ \E op \in BagToSet(fetches["A"]) : \E ok \in BOOLEAN : FetchExec("A", op, ok)
  \/ \E op \in BagToSet(fetches["A"]) : FetchApply("A", op)
  \/ FeedDeliver("A")
  \/ \E d \in Drafts : Compose("A", d)
  \/ Submit("A")
  \/ \E op \in BagToSet(sends["A"]) : \E ok \in BOOLEAN : \E stamp \in 1..MaxStamp :
       SendInsert("A", op, ok, stamp)

SpecSend == InitSync /\ [][NextSend]_vars

\* Drafting: A opens the chat with B, edits the draft and submits it, at any
\* point of the resolution and of the history read; every store request is
\* answered.
NextDraft ==
  \/ SelectUser("A", "B")
  \/ \E op \in BagToSet(inits["A"]) : InitLookup("A", op, TRUE)
  \/ ChannelJoined("A")
  \/ \E op \in BagToSet(fetches["A"]) : FetchExec("A", op, TRUE)
  \/ \E op \in BagToSet(fetches["A"]) : FetchApply("A", op)
  \/ FeedDeliver("A")
  \/ \E d \in Drafts : Compose("A", d)
  \/ Submit("A")
  \/ \E op \in BagToSet(sends["A"]) : SendInsert("A", op, TRUE, 1)

SpecDraft == InitSync /\ [][NextDraft]_vars

\* Broadcast outage: A sends to B while the connection of A's socket comes
\* and goes; B has the chat with A open and its view is followed (history
\* read, feed); every store request is answered.
NextBroadcast ==
  \/ SelectUser("A", "B")
  \/ SelectUser("B", "A")
  \/ \E s \in Sessions : \E op \in BagToSet(inits[s]) : InitLookup(s, op, TRUE)
  \/ SocketDown("A")
  \/ SocketUp("A")
  \/ TypeDraft("A", <<"a">>) /\ UNCHANGED typed
  \/ Submit("A")
  \/ \E op \in BagToSet(sends["A"]) : SendInsert("A", op, TRUE, 1)
  \/ ChannelJoined("B")
  \/ \E op \in BagToSet(fetches["B"]) : FetchExec("B", op, TRUE)
  \/ \E op \in BagToSet(fetches["B"]) : FetchApply("B", op)
  \/ FeedDeliver("B")

SpecBroadcast == InitSync /\ [][NextBroadcast]_vars

\* Leaving a conversation: B moves between the chats with A and with C and
\* back to the user list; a lookup or an insert of the resolution may fail.
NextLeave ==
  \/ \E p \in Users : SelectUser("B", p)
  \/ BackToUsers("B")
  \/ \E op \in BagToSet(inits["B"]) : \E ok \in BOOLEAN : InitLookup("B", op, ok)
  \/ \E op \in BagToSet(inits["B"]) : \E accepted \in BOOLEAN :
       InitInsert("B", op, accepted)
  \/ ChannelJoined("B")
  \/ \E op \in BagToSet(fetches["B"]) : FetchExec("B", op, TRUE)
  \/ \E op \in BagToSet(fetches["B"]) : FetchApply("B", op)

SpecLeave == InitSwitch /\ [][NextLeave]_vars

\* Roaming: B moves between the chats with A and with C, types and sends at
\* any point of the resolutions; every store request is answered.
NextRoam ==
  \/ \E p \in Users : SelectUser("B", p)
  \/ \E op \in BagToSet(inits["B"]) : InitLookup("B", op, TRUE)
  \/ ChannelJoined("B")
  \/ \E op \in BagToSet(fetches["B"]) : FetchExec("B", op, TRUE)
  \/ \E op \in BagToSet(fetches["B"]) : FetchApply("B", op)
  \/ FeedDeliver("B")
  \/ TypeDraft("B", <<"a">>) /\ UNCHANGED typed
  \/ SendMessage("B") /\ UNCHANGED <<typed, lastSend>>
  \/ \E op \in BagToSet(sends["B"]) : SendInsert("B", op, TRUE, 1)

SpecRoam == InitSwitch /\ [][NextRoam]_vars

\* B has the chat with A open: the resolution returned the stored
\* conversation, the feed subscription is joined and the history read, of no
\* messages, has been applied.
InitOpen ==
  /\ tblConversations = <<NewConversation("A", "B")>>
  /\ tblMessages = <<>>
  /\ SignedIn
  /\ InitUserList
  /\ Registered
  /\ selectedUserId = [s \in Sessions |-> IF s = "B" THEN "A" ELSE NoUser]
  /\ conversationId = [s \in Sessions |-> IF s = "B" THEN 1 ELSE Null]
  /\ messages = [s \in Sessions |-> <<>>]
  /\ newMessage = [s \in Sessions |-> <<>>]
  /\ socketRef = [s \in Sessions |-> IF s = "B" THEN "open" ELSE "null"]
  /\ channel = [s \in Sessions |->
                  IF s = "B" THEN [conv |-> 1, joined |-> TRUE, queue |-> <<>>]
                  ELSE NoChannel]
  /\ conns = [s \in Sessions |->
                IF s = "B" THEN [sockets |-> 1, channels |-> 1] ELSE NoConns]
  /\ inits = [s \in Sessions |-> EmptyBag]
  /\ fetches = [s \in Sessions |-> EmptyBag]
  /\ sends = [s \in Sessions |-> EmptyBag]
  /\ emitted = [s \in Sessions |-> 0]
  /\ returned = [s \in Sessions |->
                   [p \in Users |-> IF s = "B" /\ p = "A" THEN 1 ELSE -1]]
  /\ lastSeq = [expect |-> Null, id |-> Null, inserted |-> FALSE]
  /\ typed = [s \in Sessions |-> 0]
  /\ readDone = [s \in Sessions |-> IF s = "B" THEN 0 ELSE -1]
  /\ lastSend = [s \in Sessions |->
                   [tick |-> FALSE, blank |-> FALSE, padded |-> FALSE,
                    sent |-> "no"]]

\* Reconnection: B keeps the chat with A open while its realtime connection
\* comes and goes and its view is followed; A opens the chat with B and
\* sends; every store request is answered.
NextReconnect ==
  \/ SelectUser("A", "B")
  \/ \E op \in BagToSet(inits["A"]) : InitLookup("A", op, TRUE)
  \/ \E op \in BagToSet(fetches["A"]) : FetchExec("A", op, TRUE)
  \/ \E op \in BagToSet(fetches["A"]) : FetchApply("A", op)
  \/ TypeDraft("A", <<"a">>) /\ UNCHANGED typed
  \/ SendMessage("A") /\ UNCHANGED <<typed, lastSend>>
  \/ \E op \in BagToSet(sends["A"]) : SendInsert("A", op, TRUE, 1)
  \/ ChannelInterrupted("B")
  \/ ChannelJoined("B")
  \/ FeedDeliver("B")

SpecReconnect == InitOpen /\ [][NextReconnect]_vars

\* A page load: the auth client may hold a session from an earlier visit;
\* AuthProvider has just mounted.
InitPresence ==
  /\ tblConversations = <<>>
  /\ tblMessages = <<>>
  /\ InitChat
  /\ tblProfiles = [u \in Sessions |-> Profile(u, FALSE)]
  /\ session \in [Sessions -> BOOLEAN]
  /\ user = [s \in Sessions |-> NoUser]
  /\ timers = [s \in Sessions |-> 0]
  /\ statusCalls = [s \in Sessions |-> EmptyBag]
  /\ now = 0
  /\ goneAt = [s \in Sessions |-> -1]
  /\ startedAt = [s \in Sessions |-> -1]

\* Presence: A's browser signs in and out, receives auth events and may
\* disappear; a profiles update may fail.
NextPresence ==
  \/ AuthEvent("A")
  \/ SignIn("A")
  \/ GetSession("A")
  \/ TimerFires("A")
  \/ SignOut("A")
  \/ \E call \in BagToSet(statusCalls["A"]) : \E ok \in BOOLEAN :
       StatusUpdate("A", call, ok)
  \/ Tick
  \/ Disappear("A")

SpecPresence == InitPresence /\ [][NextPresence]_vars

\* A loaded page with a session: the initial session was delivered to the
\* listener and its timer has fired. The profiles rows exist (no code of the
\* client creates one); is_online is as the store has it, its default and
\* what else writes it are not in the client's code.
InitSession ==
  /\ tblConversations = <<>>
  /\ tblMessages = <<>>
  /\ InitChat
  /\ \E online \in [Sessions -> BOOLEAN] :
       tblProfiles = [u \in Sessions |-> Profile(u, online[u])]
  /\ session = [s \in Sessions |-> TRUE]
  /\ user = [s \in Sessions |-> s]
  /\ timers = [s \in Sessions |-> 0]
  /\ statusCalls = [s \in Sessions |-> EmptyBag]
  /\ now = 0
  /\ goneAt = [s \in Sessions |-> -1]
  /\ startedAt = [s \in Sessions |-> 0]

\* Signing out and in again: A's browser receives auth events, signs out and
\* in; every profiles update is answered.
NextSignOut ==
  \/ AuthEvent("A")
  \/ SignIn("A")
  \/ TimerFires("A")
  \/ SignOut("A")
  \/ \E call \in BagToSet(statusCalls["A"]) : StatusUpdate("A", call, TRUE)
  \/ Tick

SpecSignOut == InitSession /\ [][NextSignOut]_vars

\* Loaded pages with sessions, as InitSession; the profiles row of A may be
\* missing from the store (no code of the client creates it).
InitProfiles ==
  /\ tblConversations = <<>>
  /\ tblMessages = <<>>
  /\ InitChat
  /\ \E stored \in {Sessions, Sessions \ {"A"}} :
       \E online \in [stored -> BOOLEAN] :
         tblProfiles = [u \in stored |-> Profile(u, online[u])]
  /\ session = [s \in Sessions |-> TRUE]
  /\ user = [s \in Sessions |-> s]
  /\ timers = [s \in Sessions |-> 0]
  /\ statusCalls = [s \in Sessions |-> EmptyBag]
  /\ now = 0
  /\ goneAt = [s \in Sessions |-> -1]
  /\ startedAt = [s \in Sessions |-> 0]

\* Writers of profiles: A's browser signs out and in and opens the chat with
\* B; B signs out; every store request is answered.
NextProfiles ==
  \/ SignIn("A")
  \/ TimerFires("A")
  \/ \E s \in Sessions : SignOut(s)
  \/ \E s \in Sessions : \E call \in BagToSet(statusCalls[s]) :
       StatusUpdate(s, call, TRUE)
  \/ Tick
  \/ SelectUser("A", "B")
  \/ \E op \in BagToSet(inits["A"]) : InitLookup("A", op, TRUE)
  \/ \E op \in BagToSet(inits["A"]) : InitInsert("A", op, TRUE)

SpecProfiles == InitProfiles /\ [][NextProfiles]_vars

\* The log: a conversation of A and B is stored. B moves between the chats
\* with A and with C and back to the user list, and signs out; A opens the
\* chat with B, reads the history and sends; every store request is answered.
NextLog ==
  \/ \E p \in Users : SelectUser("B", p)
  \/ BackToUsers("B")
  \/ \E op \in BagToSet(inits["B"]) : InitLookup("B", op, TRUE)
  \/ \E op \in BagToSet(inits["B"]) : InitInsert("B", op, TRUE)
  \/ SelectUser("A", "B")
  \/ \E op \in BagToSet(inits["A"]) : InitLookup("A", op, TRUE)
  \/ \E op \in BagToSet(fetches["A"]) : FetchExec("A", op, TRUE)
  \/ \E op \in BagToSet(fetches["A"]) : FetchApply("A", op)
  \/ TypeDraft("A", <<"a">>) /\ UNCHANGED typed
  \/ SendMessage("A") /\ UNCHANGED <<typed, lastSend>>
  \/ \E op \in BagToSet(sends["A"]) : SendInsert("A", op, TRUE, 1)
  \/ SignOut("B")
  \/ \E call \in BagToSet(statusCalls["B"]) : StatusUpdate("B", call, TRUE)

SpecLog == InitSync /\ [][NextLog]_vars

\* Every request sent to the store is answered in the end, by a result or by a
\* failure, and a subscription is joined in the end; nothing is assumed of
\* what the user does.
FairLeave ==
  /\ WF_vars(\E op \in BagToSet(inits["B"]) : \E ok \in BOOLEAN :
               InitLookup("B", op, ok))
  /\ WF_vars(\E op \in BagToSet(inits["B"]) : \E accepted \in BOOLEAN :
               InitInsert("B", op, accepted))
  /\ WF_vars(ChannelJoined("B"))
  /\ WF_vars(\E op \in BagToSet(fetches["B"]) : FetchExec("B", op, TRUE))
  /\ WF_vars(\E op \in BagToSet(fetches["B"]) : FetchApply("B", op))

\* Leaving a conversation, with every request answered in the end.
SpecRetry == InitSwitch /\ [][NextLeave]_vars /\ FairLeave

\* Loaded pages with sessions, as InitSession; the UserList of A has run its
\* effect: its channel is joined and its first fetchProfiles has been applied.
InitList ==
  /\ tblConversations = <<>>
  /\ tblMessages = <<>>
  /\ InitWindow
  /\ Registered
  /\ \E online \in [Sessions -> BOOLEAN] :
       tblProfiles = [u \in Sessions |-> Profile(u, online[u])]
  /\ session = [s \in Sessions |-> TRUE]
  /\ user = [s \in Sessions |-> s]
  /\ timers = [s \in Sessions |-> 0]
  /\ statusCalls = [s \in Sessions |-> EmptyBag]
  /\ now = 0
  /\ goneAt = [s \in Sessions |-> -1]
  /\ startedAt = [s \in Sessions |-> 0]
  /\ profiles = [s \in Sessions |-> IF s = "A" THEN ProfilesQuery("A") ELSE <<>>]
  /\ listCalls = [s \in Sessions |-> EmptyBag]
  /\ listFeed = [s \in Sessions |->
                   IF s = "A" THEN [joined |-> TRUE, queue |-> 0] ELSE NoFeed]

\* The user list: B signs out and in while time passes; A's list handles the
\* change events and refetches; every store request is answered.
NextList ==
  \/ SignOut("B")
  \/ \E call \in BagToSet(statusCalls["B"]) :
       listFeed["A"].queue < MaxEvents /\ StatusUpdate("B", call, TRUE)
  \/ SignIn("B")
  \/ TimerFires("B")
  \/ Tick
  \/ ListEvent("A")
  \/ \E op \in BagToSet(listCalls["A"]) : ListFetchExec("A", op, TRUE)
  \/ \E op \in BagToSet(listCalls["A"]) : ListFetchApply("A", op)

SpecList == InitList /\ [][NextList]_vars

\* ------------------------------------------------------------------ signUp
\* .from('profiles').select('username').eq('username', n).single(): a row
\* when exactly one profile has the username n.
UsernameTaken(n) ==
  Cardinality({u \in DOMAIN tblProfiles : tblProfiles[u].username = n}) = 1

\* How the auth service may treat supabase.auth.signUp for an email: it
\* registers an unregistered email; for a registered one it answers with an
\* "already registered" error, or with no error and no change. The request
\* may also fail before it reaches the service.
SignUpOutcomes(email) ==
  {"failed"} \cup
    IF accounts[email] = NoAccount THEN {"created"} ELSE {"rejected", "ignored"}

Outcomes == {"created", "rejected", "ignored", "failed"}

\* supabase.auth.signUp({email, password}) as the service handles it.
AuthSignUp(email, password, outcome) ==
  accounts' = IF outcome = "created"
              THEN [accounts EXCEPT ![email] = password]
              ELSE accounts

\* signUp returns: {error} or {error: null, success: true}.
SignUpReturns(s, result) ==
  /\ signedUp' = [signedUp EXCEPT ![s] = [result |-> result,
                                           email |-> signUps[s].email,
                                           fresh |-> signUps[s].fresh]]
  /\ signUps' = [signUps EXCEPT ![s] = NoSignUp]

\* signUp(email, password, username) is called and sends the username
\* lookup. fresh records whether the username is unused and the email
\* unregistered at the call.
SignUp(s, email, username) ==
  /\ goneAt[s] = -1
  /\ signUps[s].pc = "idle"
  /\ signUps' = [signUps EXCEPT ![s] =
       [pc |-> "username", email |-> email, username |-> username,
        fresh |-> ~UsernameTaken(username) /\ accounts[email] = NoAccount]]
  /\ UNCHANGED <<chat, list, store, auth, accounts, signedUp, timers,
                 statusCalls, now, goneAt>>

\* The username lookup answers (ok: without an error): with a row, signUp
\* returns "Username already exists"; otherwise it goes on to the
\* availability check.
SignUpUsername(s, ok) ==
  /\ signUps[s].pc = "username"
  /\ IF ok /\ UsernameTaken(signUps[s].username)
     THEN SignUpReturns(s, "error")
     ELSE /\ signUps' = [signUps EXCEPT ![s].pc = "check"]
          /\ UNCHANGED signedUp
  /\ UNCHANGED <<chat, list, store, auth, accounts, timers, statusCalls, now,
                 goneAt>>

\* The availability check: supabase.auth.signUp with the placeholder
\* password. An "already registered" error makes signUp return "Email
\* already exists"; any other error leads on to the actual sign-up; with no
\* error and an unconfirmed user the temporary session is signed out first.
SignUpCheck(s, outcome) ==
  /\ signUps[s].pc = "check"
  /\ outcome \in SignUpOutcomes(signUps[s].email)
  /\ AuthSignUp(signUps[s].email, TempPassword, outcome)
  /\ IF outcome = "rejected"
     THEN SignUpReturns(s, "error")
     ELSE /\ signUps' = [signUps EXCEPT ![s].pc =
                           IF outcome = "failed" THEN "final" ELSE "cleanup"]
          /\ UNCHANGED signedUp
  /\ UNCHANGED <<chat, list, store, auth, timers, statusCalls, now, goneAt>>

\* await supabase.auth.signOut() after the availability check.
SignUpCleanup(s) ==
  /\ signUps[s].pc = "cleanup"
  /\ AuthSignOut(s)
  /\ signUps' = [signUps EXCEPT ![s].pc = "final"]
  /\ UNCHANGED <<chat, list, store, accounts, signedUp, timers, statusCalls,
                 now, goneAt>>

\* The actual sign-up, with the caller's password: finalError makes signUp
\* return it, otherwise signUp returns success.
SignUpFinal(s, outcome) ==
  /\ signUps[s].pc = "final"
  /\ outcome \in SignUpOutcomes(signUps[s].email)
  /\ AuthSignUp(signUps[s].email, Password, outcome)
  /\ SignUpReturns(s, IF outcome \in {"rejected", "failed"} THEN "error" ELSE "ok")
  /\ UNCHANGED <<chat, list, store, auth, timers, statusCalls, now, goneAt>>

\* A visitor in browser A, on the Auth page, signs up, again and again: B's
\* user is registered and has a profile, a@mail and the username A are
\* free. The username lookup and the requests to the auth service may fail.
InitSignUp ==
  /\ tblConversations = <<>>
  /\ tblMessages = <<>>
  /\ InitWindow
  /\ InitUserList
  /\ tblProfiles = [u \in {"B"} |-> Profile(u, FALSE)]
  /\ session = [s \in Sessions |-> s = "B"]
  /\ user = [s \in Sessions |-> IF s = "B" THEN s ELSE NoUser]
  /\ timers = [s \in Sessions |-> 0]
  /\ statusCalls = [s \in Sessions |-> EmptyBag]
  /\ now = 0
  /\ goneAt = [s \in Sessions |-> -1]
  /\ startedAt = [s \in Sessions |-> -1]
  /\ accounts = [e \in Emails |-> IF e = "b@mail" THEN Password ELSE NoAccount]
  /\ signUps = [s \in Sessions |-> NoSignUp]
  /\ signedUp = [s \in Sessions |-> NotSignedUp]

NextSignUp ==
  \/ \E email \in Emails, username \in Sessions : SignUp("A", email, username)
  \/ \E ok \in BOOLEAN : SignUpUsername("A", ok)
  \/ \E outcome \in Outcomes : SignUpCheck("A", outcome)
  \/ SignUpCleanup("A")
  \/ \E outcome \in Outcomes : SignUpFinal("A", outcome)

SpecSignUp == InitSignUp /\ [][NextSignUp]_vars

\* ------------------------------------------------------------------- claims
PairOfRow(i) ==
  Pair(tblConversations[i].participant_one, tblConversations[i].participant_two)

\* C1: in every reachable state the store holds at most one Conversation row
\* for any unordered pair of participants.
C1_AtMostOneConversationPerPair ==
  \A i, j \in 1..Len(tblConversations) : PairOfRow(i) = PairOfRow(j) => i = j

\* C2: the finished resolutions of one pair, by either participant, all ended
\* with the same conversation id, and none ended without an id.
C2_ResolutionsAgree ==
  \A s, t \in Sessions : \A p, q \in Users :
    (/\ Pair(s, p) = Pair(t, q)
     /\ returned[s][p] # -1
     /\ returned[t][q] # -1)
    => (returned[s][p] = returned[t][q] /\ returned[s][p] # Null)

\* C3: a resolution that ran in succession to a completed resolution of the
\* same pair (none other of the pair in flight meanwhile) ended with the id
\* the earlier one returned and inserted no Conversation row.
C3_SequentialResolution ==
  lastSeq.expect # Null =>
    (lastSeq.id = lastSeq.expect /\ ~lastSeq.inserted)

\* C4: the displayed sequence of a ChatWindow holds no message twice.
C4_NoDuplicateShown ==
  \A s \in Sessions : \A i, j \in 1..Len(messages[s]) :
    messages[s][i] = messages[s][j] => i = j

\* The view of s is at rest: its feed subscription is joined, no feed event
\* and no history read of it is outstanding.
AtRest(s) ==
  /\ conversationId[s] # Null
  /\ channel[s].conv = conversationId[s]
  /\ channel[s].joined
  /\ channel[s].queue = <<>>
  /\ fetches[s] = EmptyBag

Shown(s) == {messages[s][i] : i \in 1..Len(messages[s])}

\* C5: every Message inserted into a conversation becomes visible in every
\* session that has it open; stated on the states a finite run ends in: once
\* the view is at rest, it shows every stored Message of its conversation.
C5_InsertedMessagesShown ==
  \A s \in Sessions : AtRest(s) => MessagesOf(conversationId[s]) \subseteq Shown(s)

\* (created_at, id) of message a is at most that of message b.
KeyLeq(a, b) ==
  \/ tblMessages[a].created_at < tblMessages[b].created_at
  \/ /\ tblMessages[a].created_at = tblMessages[b].created_at
     /\ a <= b

\* C6: the displayed sequence is sorted ascending by (created_at, id).
C6_ShownSorted ==
  \A s \in Sessions : \A i, j \in 1..Len(messages[s]) :
    i < j => KeyLeq(messages[s][i], messages[s][j])

\* Message a is displayed somewhere before message b in the view of s.
Before(s, a, b) ==
  \E i, j \in 1..Len(messages[s]) :
    i < j /\ messages[s][i] = a /\ messages[s][j] = b

Max(a, b) == IF a >= b THEN a ELSE b

\* C7: two sessions that have both applied the history read of the
\* conversation they have open show the Messages inserted after that in the
\* same relative order: none shows a before b while the other shows b before a.
C7_SameRelativeOrder ==
  \A s, t \in Sessions :
    (/\ s # t
     /\ readDone[s] >= 0
     /\ readDone[t] >= 0
     /\ conversationId[s] = conversationId[t])
    => \A a, b \in MessagesOf(conversationId[s]) :
         (a > Max(readDone[s], readDone[t]) /\ b > Max(readDone[s], readDone[t]))
         => ~(Before(s, a, b) /\ Before(t, b, a))

\* Stored Message rows sent by s.
SentBy(s) == {i \in 1..Len(tblMessages) : tblMessages[i].sender_id = s}

\* C8: every composed draft is stored at most once: a session has no more
\* stored Message rows than drafts it composed.
C8_OneRowPerDraft ==
  \A s \in Sessions : Cardinality(SentBy(s)) <= typed[s]

\* C9: a send whose durable insert fails keeps the composed message on the
\* client: in the step in which the failed insert of a call returns, the draft
\* still holds the content of that call.
C9_FailedSendRetained ==
  [][\A s \in Sessions : \A op \in BagToSet(sends[s]) :
       (/\ op.live
        /\ sends'[s] = Remove(sends[s], op)
        /\ tblMessages' = tblMessages)
       => Trim(newMessage'[s]) = op.content]_vars

\* C10: a sendMessage call that finds a draft empty after trimming issues no
\* socket emit and no store insert and leaves the draft, the displayed
\* sequence and the store as they are.
C10_EmptyDraftRejected ==
  [][\A s \in Sessions :
       (lastSend'[s] # lastSend[s] /\ Trim(newMessage[s]) = <<>>)
       => UNCHANGED <<emitted, sends, store, newMessage, messages, channel>>]_vars

\* A sendMessage call has found a draft of blanks only, with the conversation
\* resolved, and nothing was emitted or stored.
C10_Witness ==
  \E s \in Sessions :
    /\ lastSend[s].tick
    /\ lastSend[s].blank
    /\ emitted[s] = 0
    /\ tblMessages = <<>>

\* C11: whatever the state of the socket (connected or disconnected), every
\* sendMessage call that passes the guards issues the durable insert, and when
\* the insert is stored every session whose feed subscription for the
\* conversation has joined is sent the message.
C11_SendWithoutBroadcast ==
  [][/\ \A s \in Sessions :
          (lastSend'[s] # lastSend[s] /\ ~SendRejected(s))
          => sends'[s] = Add(sends[s], NewMessage(s))
     /\ tblMessages' # tblMessages =>
          \A t \in Sessions :
            (/\ channel[t].joined
             /\ channel[t].conv = tblMessages'[Len(tblMessages')].conversation_id)
            => channel'[t].queue = Append(channel[t].queue, Len(tblMessages'))]_vars

\* The one message stored was sent by A in a call that found the socket
\* disconnected, the insert came after B's history read, and B displays it.
C11_Witness ==
  /\ lastSend["A"].sent = "down"
  /\ sends["A"] = EmptyBag
  /\ Len(tblMessages) = 1
  /\ readDone["B"] = 0
  /\ messages["B"] = <<1>>

\* C12: while a peer is selected, no change-feed event and no history-read
\* result of a conversation with another peer modifies the displayed sequence.
C12_NoStaleEventApplied ==
  [][\A s \in Sessions :
       (/\ selectedUserId[s] # NoUser
        /\ selectedUserId'[s] = selectedUserId[s]
        /\ messages'[s] # messages[s])
       => /\ (channel[s].queue # <<>> /\ channel'[s].queue = Tail(channel[s].queue))
             => PairOfRow(tblMessages[Head(channel[s].queue)].conversation_id)
                  = Pair(s, selectedUserId[s])
          /\ \A op \in BagToSet(fetches[s]) :
               (op.pc = "replied" /\ fetches'[s] = Remove(fetches[s], op))
               => PairOfRow(op.conv) = Pair(s, selectedUserId[s])]_vars

\* C13: in every reachable state the socket and the change-feed channel of a
\* viewer are live for the same conversation: a live channel is the channel of
\* the conversation with the peer the socket was opened for (the one selected).
C13_OneConversationLive ==
  \A s \in Sessions :
    (socketRef[s] # "null" /\ channel[s].conv # Null)
    => PairOfRow(channel[s].conv) = Pair(s, selectedUserId[s])

\* No call of initializeConversation of session s can still change its view.
Resolved(s) == \A op \in BagToSet(inits[s]) : ~op.live

\* C14: once a viewer has left a conversation no subscription of it stays
\* live: with the view torn down there is no socket and no channel, and with
\* another peer selected and its resolution ended (with or without an id) the
\* channel, if any, is not the one of a conversation with a previous peer.
C14_SubscriptionsReleased ==
  \A s \in Sessions :
    /\ selectedUserId[s] = NoUser
         => (socketRef[s] = "null" /\ channel[s].conv = Null)
    /\ (selectedUserId[s] # NoUser /\ Resolved(s) /\ channel[s].conv # Null)
         => PairOfRow(channel[s].conv) = Pair(s, selectedUserId[s])

\* C15: once the listener has received a signed-in session and everything it
\* started has run (its timers have fired, no profiles update is in flight),
\* the participant's profile says is_online = true with a last_seen not
\* earlier than the start of the session.
C15_OnlineAfterSessionStart ==
  \A s \in Sessions :
    (/\ goneAt[s] = -1
     /\ session[s]
     /\ startedAt[s] >= 0
     /\ timers[s] = 0
     /\ statusCalls[s] = EmptyBag)
    => /\ tblProfiles[s].is_online
       /\ tblProfiles[s].last_seen >= startedAt[s]

\* C16: once the browser of a signed-in participant has disappeared and no
\* request of it is in flight any more, the participant's profile says
\* is_online = false with last_seen the time of the disappearance.
C16_OfflineAfterDisconnect ==
  \A s \in Sessions :
    (goneAt[s] >= 0 /\ statusCalls[s] = EmptyBag)
    => /\ ~tblProfiles[s].is_online
       /\ tblProfiles[s].last_seen = goneAt[s]

\* C17: a call of initializeConversation whose insert is rejected by the store
\* ends with the id of a stored row of the pair.
C17_RejectedInsertRequeries ==
  [][\A s \in Sessions : \A op \in BagToSet(inits[s]) :
       (/\ op.pc = "insert"
        /\ inits'[s] = Remove(inits[s], op)
        /\ tblConversations' = tblConversations)
       => returned'[s][op.peer] \in Matching(s, op.peer)]_vars

\* C18: in every reachable state the conversationId of a ChatWindow is null
\* or the id of a stored Conversation row, and a call of
\* initializeConversation whose lookup gave no row and whose insert gave none
\* either leaves conversationId as it was.
C18_NoLocalConversationId ==
  /\ [](\A s \in Sessions :
          conversationId[s] = Null
          \/ conversationId[s] \in 1..Len(tblConversations))
  /\ [][\A s \in Sessions : \A op \in BagToSet(inits[s]) :
          (/\ op.pc = "insert"
           /\ inits'[s] = Remove(inits[s], op)
           /\ tblConversations' = tblConversations)
          => conversationId'[s] = conversationId[s]]_vars

\* The resolution for the selected peer has ended without a row (lookup and
\* insert failed) in a ChatWindow that held a conversation id.
C18_Witness ==
  \E s \in Sessions :
    /\ selectedUserId[s] # NoUser
    /\ returned[s][selectedUserId[s]] = Null
    /\ Resolved(s)
    /\ conversationId[s] # Null

\* The order of user ids (string comparison).
Rank(u) == CASE u = "A" -> 1 [] u = "B" -> 2 [] u = "C" -> 3

\* C19: every stored Conversation row has its two participants in sorted
\* order, whoever created it.
C19_CanonicalPairOrder ==
  \A i \in 1..Len(tblConversations) :
    Rank(tblConversations[i].participant_one)
      <= Rank(tblConversations[i].participant_two)

\* C20: the content of every stored Message is non-empty and has no blank at
\* either end (it equals its own trim).
C20_StoredContentTrimmed ==
  \A i \in 1..Len(tblMessages) :
    /\ tblMessages[i].content # <<>>
    /\ Trim(tblMessages[i].content) = tblMessages[i].content

\* The only draft A composed had blanks around its text, was accepted and its
\* message is stored.
C20_Witness ==
  /\ typed["A"] = 1
  /\ lastSend["A"].padded
  /\ Len(tblMessages) = 1

\* C21: within one send the socket emit comes before the insert and the draft
\* is cleared only when the insert has returned: an accepted call emits and
\* leaves the store and the draft as they are; no row of a sender is stored
\* without an emit that preceded it; and the draft goes from non-empty to
\* empty, other than by an edit, only in the step that ends an insert.
C21_EmitThenInsertThenClear ==
  [][\A s \in Sessions :
       /\ (lastSend'[s] # lastSend[s] /\ ~SendRejected(s))
            => /\ emitted'[s] = emitted[s] + 1
               /\ tblMessages' = tblMessages
               /\ newMessage'[s] = newMessage[s]
       /\ tblMessages' # tblMessages
            => Cardinality(SentBy(s))' <= emitted[s]
       /\ (/\ newMessage[s] # <<>>
           /\ newMessage'[s] = <<>>
           /\ typed'[s] = typed[s]
           /\ selectedUserId'[s] = selectedUserId[s])
            => \E op \in BagToSet(sends[s]) : sends'[s] = Remove(sends[s], op)]_vars

\* In the middle of a send: the emit is done, the insert has not returned,
\* nothing is stored and the draft is still in the input.
C21_Witness ==
  /\ emitted["A"] = 1
  /\ sends["A"] # EmptyBag
  /\ tblMessages = <<>>
  /\ newMessage["A"] # <<>>

\* C22: a call of initializeConversation started for a peer that is no longer
\* the selected one does not set the view's conversation id when it ends.
C22_StaleResolutionCancelled ==
  [][\A s \in Sessions : \A op \in BagToSet(inits[s]) :
       (/\ inits'[s] = Remove(inits[s], op)
        /\ op.peer # selectedUserId[s])
       => conversationId'[s] = conversationId[s]]_vars

\* C23: every stored message belongs to the conversation of its own sender
\* and receiver: the participants of the conversation its conversation_id
\* names are exactly the two of them.
C23_MessageInOwnConversation ==
  \A i \in 1..Len(tblMessages) :
    LET m == tblMessages[i]
    IN /\ m.conversation_id \in 1..Len(tblConversations)
       /\ PairOfRow(m.conversation_id) = {m.sender_id, m.receiver_id}

\* C24: no delivery path of a view is open before the resolution for the
\* selected peer has given the conversation id: a socket exists only with the
\* id of the conversation with the selected peer, and the feed channel and the
\* current history read are those of the view's conversation id.
C24_NoPathBeforeId ==
  \A s \in Sessions :
    /\ socketRef[s] # "null"
         => /\ conversationId[s] # Null
            /\ PairOfRow(conversationId[s]) = Pair(s, selectedUserId[s])
    /\ channel[s].conv = conversationId[s]
    /\ \A op \in BagToSet(fetches[s]) : op.cur => op.conv = conversationId[s]

\* C25: a view whose history read was applied and whose feed subscription is
\* joined again, with no event outstanding, shows every Message stored in its
\* conversation since that read, in the order of the inserts: what was
\* inserted while the subscription was interrupted is not missing.
C25_GapReplayed ==
  \A s \in Sessions :
    (AtRest(s) /\ readDone[s] >= 0) =>
      \A a, b \in MessagesOf(conversationId[s]) :
        /\ a > readDone[s] => a \in Shown(s)
        /\ (readDone[s] < a /\ a < b) => Before(s, a, b)

C27_OncePerSession ==
  [][\A s \in Sessions :
       /\ timers'[s] > timers[s] => startedAt[s] = -1
       /\ BagCardinality(statusCalls'[s]) > BagCardinality(statusCalls[s])
            => statusCalls[s] = EmptyBag]_vars

\* C28: the profiles table changes only when a profiles update of a browser
\* is answered, and then only in the row of that browser's own user, of which
\* is_online and last_seen alone may differ; no row appears or disappears.
C28_PresenceFrame ==
  [][/\ DOMAIN tblProfiles' = DOMAIN tblProfiles
     /\ \A u \in DOMAIN tblProfiles :
          tblProfiles'[u] # tblProfiles[u]
          => /\ tblProfiles'[u].username = tblProfiles[u].username
             /\ u \in Sessions
             /\ \E call \in BagToSet(statusCalls[u]) :
                  /\ call.user = u
                  /\ statusCalls'[u] = Remove(statusCalls[u], call)
                  /\ tblProfiles'[u].is_online = call.is_online
                  /\ tblProfiles'[u].last_seen = call.last_seen]_vars

\* An update of A, whose row is missing, was answered (A's session ended),
\* and B's row was written by B's sign-out at time 1 or later.
C28_Witness ==
  /\ "A" \notin DOMAIN tblProfiles
  /\ ~session["A"]
  /\ tblProfiles["B"].last_seen >= 1
  /\ tblProfiles["B"].username = "B"

\* C29: every message a ChatWindow displays is a message of the conversation
\* between the viewer and the peer that is selected now.
C29_ShownBelongToSelectedPeer ==
  \A s \in Sessions : \A i \in 1..Len(messages[s]) :
    PairOfRow(tblMessages[messages[s][i]].conversation_id)
      = Pair(s, selectedUserId[s])

\* C30: a ChatWindow has at most one socket connected and at most one feed
\* channel subscribed, and none of either once it has unmounted.
C30_OneSocketOneChannel ==
  \A s \in Sessions :
    /\ conns[s].sockets <= 1
    /\ conns[s].channels <= 1
    /\ selectedUserId[s] = NoUser => conns[s] = NoConns

\* B went from the chat with A, resolved, to the chat with C, resolved too:
\* the window made its second socket and its second channel.
C30_Witness ==
  /\ selectedUserId["B"] = "C"
  /\ returned["B"]["A"] = 1
  /\ conversationId["B"] = 2
  /\ channel["B"].conv = 2
  /\ conns["B"] = [sockets |-> 1, channels |-> 1]

\* C31: no step removes or changes a stored Conversation or Message row: each
\* table after a step is the table before it, possibly with rows appended.
C31_AppendOnly ==
  [][/\ Len(tblConversations') >= Len(tblConversations)
     /\ \A i \in 1..Len(tblConversations) :
          tblConversations'[i] = tblConversations[i]
     /\ Len(tblMessages') >= Len(tblMessages)
     /\ \A i \in 1..Len(tblMessages) : tblMessages'[i] = tblMessages[i]]_vars

\* A second conversation and two messages were stored, A has read a message,
\* B has gone back to the user list and has signed out.
C31_Witness ==
  /\ Len(tblConversations) >= 2
  /\ Len(tblMessages) >= 2
  /\ messages["A"] # <<>>
  /\ selectedUserId["B"] = NoUser
  /\ ~session["B"]

\* C32: a ChatWindow that stays open on a peer obtains the id of the
\* conversation with that peer in the end, whether or not requests of its
\* resolution failed on the way: a failed resolution is tried again.
C32_ResolutionRetried ==
  \A p \in Users \ {"B"} :
    <>[](selectedUserId["B"] = p)
      => <>[](/\ conversationId["B"] # Null
              /\ PairOfRow(conversationId["B"]) = Pair("B", p))

\* The list of s is at rest: its channel is joined, it has handled every
\* event, no fetchProfiles call and no profiles update is in flight.
ListAtRest(s) ==
  /\ listFeed[s].joined
  /\ listFeed[s].queue = 0
  /\ listCalls[s] = EmptyBag
  /\ \A t \in Sessions : statusCalls[t] = EmptyBag

\* C33: once the changes of profiles have stopped and every refetch has
\* completed, the list UserList displays is the store's current answer to its
\* query: the rows of the other users.
C33_ListConverges ==
  \A s \in Sessions : ListAtRest(s) => profiles[s] = ProfilesQuery(s)

\* C34: after signUp returned without error for an unused username and an
\* unregistered email, the account registered for that email has the
\* caller-supplied password, not the placeholder of the availability check.
C34_SuppliedPassword ==
  \A s \in Sessions :
    signedUp[s].result = "ok" /\ signedUp[s].fresh
      => accounts[signedUp[s].email] = Password

====
